---- MODULE Spec2Model ----
(***************************************************************************)
(* The xonsh prompt bridge of shell/scripts/omp.py: two prompt hooks that  *)
(* read the last history record and the environment, run the renderer as a *)
(* captured subprocess and return what the capture yields.                 *)
(*                                                                         *)
(* Timestamps are floats of seconds in the code; here they are integers    *)
(* counted in ticks of half a millisecond, so that every duration that     *)
(* lies exactly halfway between two milliseconds is representable.         *)
(***************************************************************************)
EXTENDS Integers, Sequences, FiniteSets, TLC

\* ---- bounds of the model ------------------------------------------------
MaxHist == 2     \* commands a session records before the model stops it
MaxDelta == 3    \* largest |end - start| of a short command, in ticks

\* ---- representation ------------------------------------------------------
TicksPerSecond == 2000

VARIABLES
    history,     \* __xonsh__.history: the records of the commands run so far
    env,         \* the shell variables the script assigns at startup
    uuidCalls,   \* how many times uuid.uuid4() has been called
    pc,          \* where the shell's interactive thread stands
    running,     \* the hooks whose renderer subprocess is alive
    proc,        \* the subprocess of the current hook call
    ret,         \* what the last hook call returned
    args         \* the renderer invocations of the current prompt draw

vars == <<history, env, uuidCalls, pc, running, proc, ret, args>>

\* ---- values --------------------------------------------------------------
Hooks == {"primary", "right"}
Uuids == {"uuid-a", "uuid-b"}
XONSH_VERSION == "xonsh-version"
StartupExecutable == "::OMP::"
Executables == {StartupExecutable, "other-executable"}
ShellVersions == {XONSH_VERSION, "other-version"}
Rtns == {0, 1}
Timestamps ==
    {<<MaxDelta, e>> : e \in 0..(2 * MaxDelta)} \cup {<<20000, 21000>>}
Records == [rtn : Rtns, ts : Timestamps]
Outputs == {<<"f", "o", "o", "\n">>, <<"f", "o", "o">>}

NoProc == [outcome |-> "none", stdout |-> <<>>]
NoRet == [kind |-> "none", stdout |-> <<>>]

\* ---- get_command_context ---------------------------------------------------
\* Rounding with a tie going up, as floor(n / d + 1/2).
roundHalfUp(n, d) == (2 * n + d) \div (2 * d)

\* Python 3 round() of the quotient n / d (d > 0): the nearest integer, a tie
\* going to the even neighbour.
round(n, d) ==
    LET q == n \div d
        r == n - q * d
    IN  IF 2 * r < d THEN q
        ELSE IF 2 * r > d THEN q + 1
        ELSE IF q % 2 = 0 THEN q ELSE q + 1

\* The context taken from the oldest record of the session.
get_command_context_first(h) ==
    IF h # <<>>
    THEN LET last_cmd == h[1]
         IN  <<last_cmd.rtn,
               round((last_cmd.ts[2] - last_cmd.ts[1]) * 1000, TicksPerSecond)>>
    ELSE <<0, 0>>

\* The context with no default for a session that has run nothing: the
\* status of a failure and no duration.
get_command_context_nodefault(h) ==
    IF h # <<>>
    THEN LET last_cmd == h[Len(h)]
         IN  <<last_cmd.rtn,
               round((last_cmd.ts[2] - last_cmd.ts[1]) * 1000, TicksPerSecond)>>
    ELSE <<1, 0>>

get_command_context(h) ==
    IF h # <<>>
    THEN LET last_cmd == h[Len(h)]
         IN  <<last_cmd.rtn,
               round((last_cmd.ts[2] - last_cmd.ts[1]) * 1000, TicksPerSecond)>>
    ELSE <<0, 0>>

\* ---- the command lines of the two hooks -------------------------------------
\* The primary command line built from the values the script set at startup.
posh_primary_startup(h, e) ==
    LET ctx == get_command_context(h)
    IN  [exe |-> StartupExecutable, mode |-> "primary", shell |-> "xonsh",
         status |-> ctx[1], time |-> ctx[2], version |-> XONSH_VERSION]

posh_primary(h, e) ==
    LET ctx == get_command_context(h)
    IN  [exe |-> e.POSH_EXECUTABLE, mode |-> "primary", shell |-> "xonsh",
         status |-> ctx[1], time |-> ctx[2], version |-> e.POSH_SHELL_VERSION]

\* The right command line built without the command context.
posh_right_nocontext(h, e) ==
    [exe |-> e.POSH_EXECUTABLE, mode |-> "right", shell |-> "xonsh",
     status |-> 0, time |-> 0, version |-> e.POSH_SHELL_VERSION]

posh_right(h, e) ==
    LET ctx == get_command_context(h)
    IN  [exe |-> e.POSH_EXECUTABLE, mode |-> "right", shell |-> "xonsh",
         status |-> ctx[1], time |-> ctx[2], version |-> e.POSH_SHELL_VERSION]

CommandLine(hook, h, e) ==
    IF hook = "primary" THEN posh_primary(h, e) ELSE posh_right(h, e)

\* ---- state after the script has been sourced -------------------------------
Init ==
    /\ history = <<>>
    /\ \E u \in Uuids :
          env = [POWERLINE_COMMAND |-> "OMP",
                 POSH_THEME |-> "::CONFIG::",
                 POSH_PID |-> u,
                 POSH_SHELL_VERSION |-> XONSH_VERSION,
                 POSH_EXECUTABLE |-> StartupExecutable]
    /\ uuidCalls = 1
    /\ pc = [hook |-> "primary", at |-> "call"]
    /\ running = {}
    /\ proc = NoProc
    /\ ret = NoRet
    /\ args = <<>>

\* ---- a hook call: context, command line, spawn ------------------------------
\* A hook call that draws a fresh session identifier before it spawns.
CallRegenerating(hook) ==
    /\ pc = [hook |-> hook, at |-> "call"]
    /\ args' = Append(args, CommandLine(hook, history, env))
    /\ \/ /\ running' = running \cup {hook}
          /\ proc' = [outcome |-> "running", stdout |-> <<>>]
       \/ /\ running' = running
          /\ proc' = [outcome |-> "no_start", stdout |-> <<>>]
    /\ pc' = [hook |-> hook, at |-> "wait"]
    /\ ret' = NoRet
    /\ \E u \in Uuids \ {env.POSH_PID} : env' = [env EXCEPT !.POSH_PID = u]
    /\ uuidCalls' = uuidCalls + 1
    /\ UNCHANGED history

\* The hook reads the history and the environment, builds its command line
\* and spawns. The subprocess either starts, or cannot be started (nothing runs).
Call(hook) ==
    /\ pc = [hook |-> hook, at |-> "call"]
    /\ args' = Append(args, CommandLine(hook, history, env))
    /\ \/ /\ running' = running \cup {hook}
          /\ proc' = [outcome |-> "running", stdout |-> <<>>]
       \/ /\ running' = running
          /\ proc' = [outcome |-> "no_start", stdout |-> <<>>]
    /\ pc' = [hook |-> hook, at |-> "wait"]
    /\ ret' = NoRet
    /\ UNCHANGED <<history, env, uuidCalls>>

\* The renderer writes its output and exits, with status zero or not.
RendererExit(hook) ==
    /\ hook \in running
    /\ running' = running \ {hook}
    /\ \E out \in Outputs, oc \in {"ok", "error_exit"} :
          proc' = IF pc = [hook |-> hook, at |-> "wait"]
                  THEN [outcome |-> oc, stdout |-> out]
                  ELSE proc
    /\ UNCHANGED <<history, env, uuidCalls, pc, ret, args>>

NextPc(hook) ==
    IF hook = "primary"
    THEN [hook |-> "right", at |-> "call"]
    ELSE [hook |-> "read", at |-> "call"]

\* What the capture of a failed invocation gives is the host's choice: the
\* output captured so far, or the error raised into the caller.
Returned(p) ==
    IF p.outcome = "ok"
    THEN {[kind |-> "captured", stdout |-> p.stdout]}
    ELSE {[kind |-> "captured", stdout |-> p.stdout],
          [kind |-> "raised", stdout |-> <<>>]}

\* A return that does not wait for the subprocess to be gone.
ReturnNoWait(hook) ==
    /\ pc = [hook |-> hook, at |-> "wait"]
    /\ ret' \in Returned(proc)
    /\ pc' = NextPc(hook)
    /\ UNCHANGED <<history, env, uuidCalls, running, proc, args>>

\* A return that calls the renderer again when the invocation failed.
ReturnRetry(hook) ==
    /\ pc = [hook |-> hook, at |-> "wait"]
    /\ proc.outcome \in {"ok", "error_exit", "no_start"}
    /\ IF proc.outcome = "ok"
       THEN /\ ret' \in Returned(proc)
            /\ pc' = NextPc(hook)
       ELSE /\ ret' = NoRet
            /\ pc' = [hook |-> hook, at |-> "call"]
    /\ UNCHANGED <<history, env, uuidCalls, running, proc, args>>

\* $( ... ) blocks until the subprocess is gone, then the hook returns.
Return(hook) ==
    /\ pc = [hook |-> hook, at |-> "wait"]
    /\ proc.outcome \in {"ok", "error_exit", "no_start"}
    /\ ret' \in Returned(proc)
    /\ pc' = NextPc(hook)
    /\ UNCHANGED <<history, env, uuidCalls, running, proc, args>>

\* ---- the host shell between two prompt draws --------------------------------
\* The user runs a command; the shell records it and draws the next prompt.
RunCommand ==
    /\ pc = [hook |-> "read", at |-> "call"]
    /\ Len(history) < MaxHist
    /\ \E rec \in Records : history' = Append(history, rec)
    /\ pc' = [hook |-> "primary", at |-> "call"]
    /\ args' = <<>>
    /\ proc' = NoProc
    /\ ret' = NoRet
    /\ UNCHANGED <<env, uuidCalls, running>>

\* The command the user runs is an assignment to one of the shell variables.
Reassign ==
    /\ pc = [hook |-> "read", at |-> "call"]
    /\ Len(history) < MaxHist
    /\ \E ts \in Timestamps :
          history' = Append(history, [rtn |-> 0, ts |-> ts])
    /\ \/ \E x \in Executables \ {env.POSH_EXECUTABLE} :
             env' = [env EXCEPT !.POSH_EXECUTABLE = x]
       \/ \E v \in ShellVersions \ {env.POSH_SHELL_VERSION} :
             env' = [env EXCEPT !.POSH_SHELL_VERSION = v]
       \/ \E u \in Uuids \ {env.POSH_PID} :
             env' = [env EXCEPT !.POSH_PID = u]
    /\ pc' = [hook |-> "primary", at |-> "call"]
    /\ args' = <<>>
    /\ proc' = NoProc
    /\ ret' = NoRet
    /\ UNCHANGED <<uuidCalls, running>>

Next ==
    \/ \E hook \in Hooks : Call(hook)
    \/ \E hook \in Hooks : RendererExit(hook)
    \/ \E hook \in Hooks : Return(hook)
    \/ RunCommand
    \/ Reassign

Spec == Init /\ [][Next]_vars

\* ---- helpers of the properties ----------------------------------------------
AtRead == pc = [hook |-> "read", at |-> "call"]
Last(h) == h[Len(h)]
Abs(x) == IF x < 0 THEN 0 - x ELSE x
\* (t1 - t0) * 1000 of the last record, as a fraction over TicksPerSecond
Millis(rec) == (rec.ts[2] - rec.ts[1]) * 1000
IsTie(rec) == 2 * (Millis(rec) % TicksPerSecond) = TicksPerSecond

\* C1: while the history is empty, every renderer invocation of a prompt draw
\* (primary and right) carries --status=0 and --execution-time=0.
C1_EmptyHistoryZero ==
    history = <<>> =>
        \A i \in DOMAIN args : args[i].status = 0 /\ args[i].time = 0

C1_Witness ==
    /\ history = <<>>
    /\ AtRead
    /\ Len(args) = 2
    /\ args[1].mode = "primary" /\ args[2].mode = "right"

\* C2: with a non-empty history, --status and --execution-time of every
\* invocation come from the most recent record alone; the record
\* {status 1, ts [10.0, 10.5]} gives status 1 and duration 500.
C2_LastEntryOnly ==
    history # <<>> =>
        \A i \in DOMAIN args :
            /\ args[i].status = Last(history).rtn
            /\ args[i].time = round(Millis(Last(history)), TicksPerSecond)
            /\ (Last(history) = [rtn |-> 1, ts |-> <<20000, 21000>>]
                   => args[i].status = 1 /\ args[i].time = 500)

C2_Witness ==
    /\ Len(history) = 2
    /\ history[1] = [rtn |-> 0, ts |-> <<MaxDelta, 2 * MaxDelta>>]
    /\ history[2] = [rtn |-> 1, ts |-> <<20000, 21000>>]
    /\ Len(args) = 2
    /\ args[2].status = 1 /\ args[2].time = 500

\* C3 as stated: the duration argument is (t1 - t0) * 1000 rounded to the
\* nearest integer, a value exactly halfway going to the larger integer.
C3_HalfUp ==
    history # <<>> =>
        \A i \in DOMAIN args :
            args[i].time = roundHalfUp(Millis(Last(history)), TicksPerSecond)

\* C3 amended: the duration argument is an integer nearest to
\* (t1 - t0) * 1000, and a value exactly halfway between two integers goes
\* to the even one.
C3_HalfEven ==
    history # <<>> =>
        \A i \in DOMAIN args :
            LET m == Millis(Last(history))
                t == args[i].time
            IN  /\ 2 * Abs(m - t * TicksPerSecond) <= TicksPerSecond
                /\ (IsTie(Last(history)) => t % 2 = 0)

C3_Witness ==
    /\ history # <<>>
    /\ Last(history).ts = <<MaxDelta, MaxDelta + 1>>
    /\ IsTie(Last(history))
    /\ Len(args) = 2
    /\ args[1].time = 0

\* C4: the duration passed as --execution-time is never negative, also for
\* a record whose end timestamp is earlier than its start timestamp.
C4_NonNegative ==
    \A i \in DOMAIN args : args[i].time >= 0

\* C5: in one prompt draw the first invocation has mode primary, the second
\* mode right, and the two agree on every other argument.
C5_SameArguments ==
    /\ Len(args) <= 2
    /\ Len(args) >= 1 => args[1].mode = "primary"
    /\ Len(args) = 2 =>
          /\ args[2].mode = "right"
          /\ args[1].exe = args[2].exe
          /\ args[1].shell = args[2].shell
          /\ args[1].status = args[2].status
          /\ args[1].time = args[2].time
          /\ args[1].version = args[2].version

C5_Witness ==
    /\ Len(args) = 2
    /\ history # <<>>
    /\ args[1].status = 1 /\ args[2].status = 1
    /\ args[1].time # 0
    /\ args[1].version # XONSH_VERSION

\* C7: the session identifier is generated once, at startup, and no step of
\* a render (call, subprocess exit, return), in any number or order,
\* generates it again or changes $POSH_PID.
C7_SessionIdStable ==
    /\ [](uuidCalls = 1)
    /\ [][pc.hook \in Hooks =>
             env'.POSH_PID = env.POSH_PID /\ uuidCalls' = uuidCalls]_vars

C7_Witness ==
    /\ Len(history) = MaxHist
    /\ AtRead
    /\ Len(args) = 2
    /\ uuidCalls = 1

\* C8 as stated: every invocation uses the executable and the shell version
\* fixed at startup, whatever the shell variables hold by now.
C8_StartupValues ==
    \A i \in DOMAIN args :
        /\ args[i].exe = StartupExecutable
        /\ args[i].version = XONSH_VERSION

\* C8 amended: every invocation uses the values $POSH_EXECUTABLE and
\* $POSH_SHELL_VERSION hold when the hook is called; no render changes them,
\* so they are the startup values until a command reassigns them.
C8_CurrentValues ==
    \A i \in DOMAIN args :
        /\ args[i].exe = env.POSH_EXECUTABLE
        /\ args[i].version = env.POSH_SHELL_VERSION

C8_Witness ==
    /\ Len(args) = 2
    /\ env.POSH_EXECUTABLE # StartupExecutable
    /\ args[1].exe = "other-executable"
    /\ args[2].exe = "other-executable"

\* C9: a hook call starts the renderer once, so a prompt draw starts it
\* twice, also when it cannot be started or exits with an error; the value
\* returned is the capture of that one invocation or its error, never a
\* substitute text.
C9_OneSpawnPerCall ==
    /\ pc = [hook |-> "primary", at |-> "call"] => Len(args) = 0
    /\ pc = [hook |-> "primary", at |-> "wait"] => Len(args) = 1
    /\ pc = [hook |-> "right", at |-> "call"] => Len(args) = 1
    /\ pc = [hook |-> "right", at |-> "wait"] => Len(args) = 2
    /\ AtRead => Len(args) = 2
    /\ ret.kind = "captured" => ret.stdout = proc.stdout
    /\ ret.kind = "raised" => proc.outcome \in {"error_exit", "no_start"}
    /\ (proc.outcome = "no_start" /\ ret.kind = "captured") => ret.stdout = <<>>

C9_Witness ==
    /\ AtRead
    /\ Len(args) = 2
    /\ proc.outcome = "no_start"
    /\ ret.kind # "none"

\* C10: a running subprocess keeps its hook waiting: at most one subprocess
\* is alive, its hook has not returned, and the shell's thread moves on only
\* in a step after the subprocess is gone.
C10_Synchronous ==
    /\ [](/\ Cardinality(running) <= 1
          /\ \A hook \in running : pc = [hook |-> hook, at |-> "wait"]
          /\ ret.kind # "none" => running = {})
    /\ [][running # {} => pc' = pc]_vars

C10_Witness ==
    /\ running = {"right"}
    /\ pc = [hook |-> "right", at |-> "wait"]
    /\ Len(args) = 2

====
